---- MODULE Spec2Model ----
(***************************************************************************)
(* Product list modifiers of the Shuup storefront                          *)
(* (shuup/front/forms/product_list_modifiers.py).                          *)
(*                                                                         *)
(* Python strings are sequences of one-character strings, so that          *)
(* endswith, slicing, lower and strip are computed rather than assumed.    *)
(* A Python value carries its type: None, a bool, an int, a str, a dict.   *)
(***************************************************************************)
EXTENDS Integers, Sequences, FiniteSets, TLC

VARIABLES
    products,       \* sort pipeline: the product sequence handed to the modifiers
    sort,           \* sort pipeline: the raw value of the "sort" form field
    request,        \* sort pipeline: the request (its customer decides prices)
    current,        \* sort pipeline: the sequence after the modifiers applied so far
    applied,        \* sort pipeline: the sort modifiers already applied
    reordered,      \* sort pipeline: the modifiers whose call changed the sequence
    configuration,  \* configuration store: the modifiers' settings
    categories,     \* catalog: the categories, by primary key
    manufacturers,  \* catalog: the primary keys of the manufacturers
    shopProducts,   \* catalog: the shop products, by primary key
    last            \* the last call made on a modifier, with its result

vars == <<products, sort, request, current, applied, reordered, configuration,
          categories, manufacturers, shopProducts, last>>

(***************************************************************************)
(* Bounds of the model.                                                    *)
(***************************************************************************)
MaxLen == 3
MaxConfigured == 2
MaxOrdering == 1
MaxCategories == 2
MaxManufacturers == 1
MaxShopProducts == 1
MaxVariationValues == 2

(***************************************************************************)
(* Python str primitives.                                                  *)
(***************************************************************************)
PyNone == [type |-> "NoneType"]

PyBool(b) == [type |-> "bool", value |-> b]

PyInt(n) == [type |-> "int", value |-> n]

PyStr(s) == [type |-> "str", value |-> s]

PyDict(items) == [type |-> "dict", value |-> items]

\* bool(v)
Truthy(v) ==
    CASE v.type = "NoneType" -> FALSE
      [] v.type = "bool" -> v.value
      [] v.type = "int" -> v.value # 0
      [] v.type = "str" -> v.value # <<>>
      [] v.type = "dict" -> DOMAIN v.value # {}

\* not v
Falsy(v) == ~Truthy(v)

EndsWith(s, suffix) ==
    /\ Len(s) >= Len(suffix)
    /\ SubSeq(s, Len(s) - Len(suffix) + 1, Len(s)) = suffix

StartsWith(s, prefix) ==
    /\ Len(s) >= Len(prefix)
    /\ SubSeq(s, 1, Len(prefix)) = prefix

\* s[:-2]
DropLastTwo(s) == IF Len(s) >= 2 THEN SubSeq(s, 1, Len(s) - 2) ELSE <<>>

LowerChar(c) ==
    CASE c = "A" -> "a"
      [] c = "B" -> "b"
      [] c = "C" -> "c"
      [] c = "D" -> "d"
      [] c = "E" -> "e"
      [] c = "L" -> "l"
      [] c = "R" -> "r"
      [] c = "S" -> "s"
      [] c = "T" -> "t"
      [] OTHER -> c

\* str.lower()
Lower(s) == [i \in 1..Len(s) |-> LowerChar(s[i])]

IsSpace(c) == c = " "

RECURSIVE LStrip(_)
LStrip(s) == IF s # <<>> /\ IsSpace(Head(s)) THEN LStrip(Tail(s)) ELSE s

RECURSIVE RStrip(_)
RStrip(s) ==
    IF s # <<>> /\ IsSpace(s[Len(s)]) THEN RStrip(SubSeq(s, 1, Len(s) - 1)) ELSE s

\* str.strip()
Strip(s) == RStrip(LStrip(s))

\* ord() of the characters product names are written in
CodePoint(c) ==
    CASE c = " " -> 32
      [] c = "A" -> 65
      [] c = "B" -> 66
      [] c = "a" -> 97
      [] c = "b" -> 98

\* a < b for two str: the first differing code point decides, a proper prefix is smaller
StrLess(a, b) ==
    \E i \in 1..(Len(b)) :
        /\ \A j \in 1..(i - 1) : j <= Len(a) /\ a[j] = b[j]
        /\ \/ i > Len(a)
           \/ i <= Len(a) /\ CodePoint(a[i]) < CodePoint(b[i])

(***************************************************************************)
(* The text the modifiers compare against.                                 *)
(***************************************************************************)
SuffixA == <<"_", "a">>
SuffixD == <<"_", "d">>
NameKey == <<"n", "a", "m", "e">>
PriceKey == <<"p", "r", "i", "c", "e">>
CreatedDateKey == <<"c", "r", "e", "a", "t", "e", "d", "_", "d", "a", "t", "e">>

ByName == "SortProductListByName"
ByPrice == "SortProductListByPrice"
ByCreatedDate == "SortProductListByCreatedDate"

SortModifiers == {ByName, ByPrice, ByCreatedDate}

\* variant: SortProductListByPrice compares the key with "name"
BaseKeyPriceAsName(m) ==
    CASE m = ByName -> NameKey
      [] m = ByPrice -> NameKey
      [] m = ByCreatedDate -> CreatedDateKey

\* the literal each sort_products compares the parsed key with
BaseKey(m) ==
    CASE m = ByName -> NameKey
      [] m = ByPrice -> PriceKey
      [] m = ByCreatedDate -> CreatedDateKey

\* get_choices_for_fields: the values offered for the "sort" field
get_choices_for_fields(m) ==
    CASE m = ByName -> {NameKey \o SuffixA, NameKey \o SuffixD}
      [] m = ByPrice -> {PriceKey \o SuffixA, PriceKey \o SuffixD}
      [] m = ByCreatedDate -> {CreatedDateKey \o SuffixD}

(***************************************************************************)
(* Products of the listing.  Two names fold to the same lowered, stripped  *)
(* name, two prices and two creation dates tie, and the price of a product *)
(* depends on the customer of the request.                                 *)
(***************************************************************************)
Customers == {"anonymous", "contact"}

ProductPool ==
    { [id |-> 1, name |-> <<"b">>,           created_on |-> 3,
       price |-> [c \in Customers |-> IF c = "contact" THEN 5 ELSE 10]],
      [id |-> 2, name |-> <<" ", "B", " ">>, created_on |-> 1,
       price |-> [c \in Customers |-> IF c = "contact" THEN 7 ELSE 10]],
      [id |-> 3, name |-> <<"a", " ">>,      created_on |-> 3,
       price |-> [c \in Customers |-> IF c = "contact" THEN 7 ELSE 5]],
      [id |-> 4, name |-> <<"A", " ", "b">>, created_on |-> 2,
       price |-> [c \in Customers |-> IF c = "contact" THEN 9 ELSE 20]] }

\* raw values of the "sort" field: missing, empty, offered, unsuffixed, foreign
SortValues ==
    { PyNone, PyStr(<<>>),
      PyStr(NameKey), PyStr(NameKey \o SuffixA), PyStr(NameKey \o SuffixD),
      PyStr(PriceKey), PyStr(PriceKey \o SuffixA), PyStr(PriceKey \o SuffixD),
      PyStr(CreatedDateKey), PyStr(CreatedDateKey \o SuffixA), PyStr(CreatedDateKey \o SuffixD),
      PyStr(<<"x">> \o NameKey \o SuffixA), PyStr(NameKey \o <<"s">> \o SuffixD),
      PyStr(SuffixD), PyStr(<<"a">>), PyStr(NameKey \o SuffixA \o SuffixD) }

SeqsUpTo(S, n) == UNION {[1..k -> S] : k \in 0..n}

(***************************************************************************)
(* sorted(iterable, key=..., reverse=...)                                  *)
(***************************************************************************)
\* _get_product_name_lowered_stripped
get_product_name_lowered_stripped(product) == Strip(Lower(product.name))

\* _get_product_price
get_product_price(req, product) == product.price[req]

\* _get_product_created_on_datetime
get_product_created_on_datetime(product) == product.created_on

\* key(p) < key(q) for the key function of modifier m
KeyLess(m, req, p, q) ==
    CASE m = ByName ->
            StrLess(get_product_name_lowered_stripped(p), get_product_name_lowered_stripped(q))
      [] m = ByPrice -> get_product_price(req, p) < get_product_price(req, q)
      [] m = ByCreatedDate ->
            get_product_created_on_datetime(p) < get_product_created_on_datetime(q)

Reverse(s) == [i \in 1..Len(s) |-> s[Len(s) + 1 - i]]

\* x goes after every element that is not greater than it
RECURSIVE InsertSorted(_, _, _, _)
InsertSorted(m, req, x, s) ==
    IF s = <<>> THEN <<x>>
    ELSE IF KeyLess(m, req, x, Head(s)) THEN <<x>> \o s
    ELSE <<Head(s)>> \o InsertSorted(m, req, x, Tail(s))

RECURSIVE StableSort(_, _, _)
StableSort(m, req, s) ==
    IF s = <<>> THEN <<>>
    ELSE InsertSorted(m, req, s[Len(s)], StableSort(m, req, SubSeq(s, 1, Len(s) - 1)))

\* variant: reverse=True as a plain reversal of the ascending outcome
SortedPlainReverse(m, req, s, reverse) ==
    IF reverse THEN Reverse(StableSort(m, req, s)) ELSE StableSort(m, req, s)

\* list.sort keeps equal keys in input order, also with reverse=True: it reverses
\* the list, sorts it and reverses the outcome
Sorted(m, req, s, reverse) ==
    IF reverse THEN Reverse(StableSort(m, req, Reverse(s))) ELSE StableSort(m, req, s)

(***************************************************************************)
(* sort_products of the three sort modifiers.                              *)
(***************************************************************************)
\* if not sort: sort = ""
SortOrEmpty(v) == IF Falsy(v) THEN <<>> ELSE v.value

\* variant: a value without suffix parsed to the empty key
SortKeyEmptyWhenUnsuffixed(v) ==
    LET s == SortOrEmpty(v)
    IN  IF EndsWith(s, SuffixA) \/ EndsWith(s, SuffixD) THEN DropLastTwo(s) ELSE <<>>

\* key = (sort[:-2] if sort.endswith(('_a', '_d')) else sort)
SortKey(v) ==
    LET s == SortOrEmpty(v)
    IN  IF EndsWith(s, SuffixA) \/ EndsWith(s, SuffixD) THEN DropLastTwo(s) ELSE s

\* variant: the key compared with endswith instead of ==
KeyMatchesSuffix(key, m) == EndsWith(key, BaseKey(m))

\* if key == "name": (and "price", "created_date")
KeyMatches(key, m) == key = BaseKey(m)

\* SortProductListByName.sort_products
SortProductListByName_sort_products(req, prods, v) ==
    IF KeyMatches(SortKey(v), ByName)
    THEN Sorted(ByName, req, prods, EndsWith(SortOrEmpty(v), SuffixD))
    ELSE prods

\* SortProductListByPrice.sort_products
SortProductListByPrice_sort_products(req, prods, v) ==
    IF KeyMatches(SortKey(v), ByPrice)
    THEN Sorted(ByPrice, req, prods, EndsWith(SortOrEmpty(v), SuffixD))
    ELSE prods

\* SortProductListByCreatedDate.sort_products
SortProductListByCreatedDate_sort_products(req, prods, v) ==
    IF KeyMatches(SortKey(v), ByCreatedDate)
    THEN Sorted(ByCreatedDate, req, prods, EndsWith(SortOrEmpty(v), SuffixD))
    ELSE prods

\* sort_products of modifier m
sort_products(m, req, prods, v) ==
    CASE m = ByName -> SortProductListByName_sort_products(req, prods, v)
      [] m = ByPrice -> SortProductListByPrice_sort_products(req, prods, v)
      [] m = ByCreatedDate -> SortProductListByCreatedDate_sort_products(req, prods, v)

(***************************************************************************)
(* The sort pipeline: every sort modifier is applied once, in any order.   *)
(***************************************************************************)
NoCall == [op |-> "none"]

InitSort ==
    /\ products \in SeqsUpTo(ProductPool, MaxLen)
    /\ sort \in SortValues
    /\ request \in Customers
    /\ current = products
    /\ applied = {}
    /\ reordered = {}
    /\ configuration = PyNone
    /\ categories = <<>>
    /\ manufacturers = {}
    /\ shopProducts = <<>>
    /\ last = NoCall

\* what a call of sort_products on modifier m leaves behind, current' being its result
SortCalled(m) ==
    /\ applied' = applied \cup {m}
    /\ reordered' = IF current' # current THEN reordered \cup {m} ELSE reordered
    /\ last' = [op |-> "sort_products", modifier |-> m, key |-> SortKey(sort),
                 before |-> current, after |-> current']
    /\ UNCHANGED <<products, sort, request, configuration,
                   categories, manufacturers, shopProducts>>

SortByName ==
    /\ ByName \notin applied
    /\ current' = SortProductListByName_sort_products(request, current, sort)
    /\ SortCalled(ByName)

SortByPrice ==
    /\ ByPrice \notin applied
    /\ current' = SortProductListByPrice_sort_products(request, current, sort)
    /\ SortCalled(ByPrice)

SortByCreatedDate ==
    /\ ByCreatedDate \notin applied
    /\ current' = SortProductListByCreatedDate_sort_products(request, current, sort)
    /\ SortCalled(ByCreatedDate)

NextSort == SortByName \/ SortByPrice \/ SortByCreatedDate

SpecSort == InitSort /\ [][NextSort]_vars

(***************************************************************************)
(* Vocabulary of the properties of the sort modifiers.                     *)
(***************************************************************************)
\* the raw sort value as text, a missing one read as the empty text
RawSort(v) == IF v.type = "str" THEN v.value ELSE <<>>

Unsuffixed(s) == ~EndsWith(s, SuffixA) /\ ~EndsWith(s, SuffixD)

\* s is in ascending (descending) order of the key of modifier m
OrderedBy(m, req, s, descending) ==
    \A i, j \in 1..Len(s) :
        i < j => IF descending THEN ~KeyLess(m, req, s[i], s[j])
                               ELSE ~KeyLess(m, req, s[j], s[i])

SameKey(m, req, p, q) == ~KeyLess(m, req, p, q) /\ ~KeyLess(m, req, q, p)

\* after holds the elements of before, and those with equal keys in the order of before
TiesKeepOrder(m, req, before, after) ==
    /\ Len(after) = Len(before)
    /\ \A p \in ProductPool :
         LET Tied(q) == SameKey(m, req, p, q)
         IN  SelectSeq(after, Tied) = SelectSeq(before, Tied)

Count(s, p) == Cardinality({i \in 1..Len(s) : s[i] = p})

IsPermutation(s, t) == Len(s) = Len(t) /\ \A p \in ProductPool : Count(s, p) = Count(t, p)

IsSortCall == last.op = "sort_products"

\* C1: a sort value (a missing one included) that does not start with the base key
\* of the modifier called makes sort_products return its input: same elements,
\* same order.
C1_ForeignSortValueIsNoOp ==
    (IsSortCall /\ ~StartsWith(RawSort(sort), BaseKey(last.modifier)))
        => last.after = last.before

\* C1 witness: ByName was called with "xname_a" on a sequence that a sort by name
\* would have changed, and returned it as it was.
C1_Witness ==
    /\ IsSortCall
    /\ last.modifier = ByName
    /\ sort = PyStr(<<"x">> \o NameKey \o SuffixA)
    /\ StableSort(ByName, request, last.before) # last.before
    /\ last.after = last.before

\* C2: SortProductListByName with "name_a" returns a permutation of its input in
\* ascending order of the lowered, stripped name, with "name_d" in descending
\* order, and products with equal lowered, stripped names keep their input order.
C2_NameSortOrderedAndStable ==
    (IsSortCall /\ last.modifier = ByName /\ sort.type = "str"
                /\ sort.value \in {NameKey \o SuffixA, NameKey \o SuffixD})
        => /\ IsPermutation(last.after, last.before)
           /\ OrderedBy(ByName, request, last.after, sort.value = NameKey \o SuffixD)
           /\ TiesKeepOrder(ByName, request, last.before, last.after)

\* C2 witness: a descending sort by name of an input in which products 1 and 2,
\* whose names both fold to "b", come in that order with product 3 between them.
C2_Witness ==
    /\ IsSortCall
    /\ last.modifier = ByName
    /\ sort = PyStr(NameKey \o SuffixD)
    /\ Len(last.before) = 3
    /\ last.before[1].id = 1 /\ last.before[2].id = 3 /\ last.before[3].id = 2
    /\ last.after[1].id = 1 /\ last.after[2].id = 2 /\ last.after[3].id = 3

\* C4, as stated: for a missing sort value and for a sort value without a trailing
\* "_a" or "_d" (the base key being taken as empty) no sort modifier reorders the
\* products.
C4_UnsuffixedNeverReorders ==
    (IsSortCall /\ (sort.type = "NoneType" \/ Unsuffixed(sort.value))) => last.after = last.before

\* C4, amended: a missing or empty sort value gives the empty string as base key
\* and reorders nothing; a sort value without a trailing "_a" or "_d" is its own
\* base key, so the modifier whose base key it equals sorts ascending (ties in
\* input order) and every other modifier leaves the products as they were.
C4_UnsuffixedIsItsOwnKey ==
    IsSortCall =>
        /\ Falsy(sort) => last.key = <<>> /\ last.after = last.before
        /\ (sort.type = "str" /\ Unsuffixed(sort.value)) =>
             /\ last.key = sort.value
             /\ IF sort.value = BaseKey(last.modifier)
                THEN /\ OrderedBy(last.modifier, request, last.after, FALSE)
                     /\ TiesKeepOrder(last.modifier, request, last.before, last.after)
                ELSE last.after = last.before

\* C4 witness: ByName was called with the bare value "name" and reordered the products.
C4_Witness ==
    /\ IsSortCall
    /\ last.modifier = ByName
    /\ sort = PyStr(NameKey)
    /\ last.key = NameKey
    /\ last.after # last.before

\* the modifiers whose base key the sort value is, bare or with a direction suffix
Matching(v) ==
    {m \in SortModifiers :
        RawSort(v) \in {BaseKey(m), BaseKey(m) \o SuffixA, BaseKey(m) \o SuffixD}}

Offering(v) == {m \in SortModifiers : v.type = "str" /\ v.value \in get_choices_for_fields(m)}

\* C10: for every sort value at most one sort modifier reorders the products; a
\* value offered by a modifier is acted on by that modifier and left alone by the
\* others; once all three were applied, in whatever order, the outcome is what
\* the matching modifier alone makes of the input, and a permutation of the input.
C10_OnlyTheMatchingModifierActs ==
    /\ Cardinality(reordered) <= 1
    /\ (IsSortCall /\ Offering(sort) # {}) =>
          IF last.modifier \in Offering(sort)
          THEN /\ OrderedBy(last.modifier, request, last.after, EndsWith(sort.value, SuffixD))
               /\ TiesKeepOrder(last.modifier, request, last.before, last.after)
          ELSE last.after = last.before
    /\ applied = SortModifiers =>
          /\ IsPermutation(current, products)
          /\ current = IF Matching(sort) = {} THEN products
                       ELSE sort_products(CHOOSE m \in Matching(sort) : TRUE,
                                          request, products, sort)

\* C10 witness: all three modifiers were applied to "price_d"; only ByPrice changed
\* the sequence, which was ordered neither by name nor by creation date.
C10_Witness ==
    /\ applied = SortModifiers
    /\ sort = PyStr(PriceKey \o SuffixD)
    /\ reordered = {ByPrice}
    /\ current # products
    /\ StableSort(ByName, request, products) # products
    /\ Reverse(StableSort(ByCreatedDate, request, Reverse(products))) # products

(***************************************************************************)
(* Activation and ordering (SimpleProductListModifier).                    *)
(***************************************************************************)
ByManufacturer == "ManufacturerProductListFilter"
ByCategory == "CategoryProductListFilter"
ByPageSize == "LimitProductListPageSize"
ByVariation == "ProductVariationFilter"

Modifiers == SortModifiers \cup {ByManufacturer, ByCategory, ByPageSize, ByVariation}

is_active_key(m) ==
    CASE m = ByName -> "sort_products_by_name"
      [] m = ByPrice -> "sort_products_by_price"
      [] m = ByCreatedDate -> "sort_products_by_date_created"
      [] m = ByManufacturer -> "filter_products_by_manufacturer"
      [] m = ByCategory -> "filter_products_by_category"
      [] m = ByPageSize -> "limit_product_list_page_size"
      [] m = ByVariation -> "filter_products_by_variation_value"

ordering_key(m) ==
    CASE m = ByName -> "sort_products_by_name_ordering"
      [] m = ByPrice -> "sort_products_by_price_ordering"
      [] m = ByCreatedDate -> "sort_products_by_date_created_ordering"
      [] m = ByManufacturer -> "filter_products_by_manufacturer_ordering"
      [] m = ByCategory -> "filter_products_by_category_ordering"
      [] m = ByPageSize -> "limit_product_list_page_size_ordering"
      [] m = ByVariation -> "filter_products_by_variation_value_ordering"

\* dict.get(key, default)
DictGet(d, key, default) == IF key \in DOMAIN d.value THEN d.value[key] ELSE default

\* d[key] = value for every pair of `pairs`, a function from keys to values
DictUpdate(d, pairs) ==
    PyDict([k \in DOMAIN d.value \cup DOMAIN pairs |->
               IF k \in DOMAIN pairs THEN pairs[k] ELSE d.value[k]])

\* variant: should_use reading the ordering key
should_use_by_ordering_key(m, cfg) ==
    IF Falsy(cfg) THEN PyNone
    ELSE PyBool(Truthy(DictGet(cfg, ordering_key(m), PyNone)))

\* SimpleProductListModifier.should_use; a bare `return` gives None
should_use(m, cfg) ==
    IF Falsy(cfg) THEN PyNone
    ELSE PyBool(Truthy(DictGet(cfg, is_active_key(m), PyNone)))

\* variant: get_ordering defaulting to 0 for a key that is not set
get_ordering_default_zero(m, cfg) ==
    IF Falsy(cfg) THEN PyInt(1)
    ELSE DictGet(cfg, ordering_key(m), PyInt(0))

\* SimpleProductListModifier.get_ordering
get_ordering(m, cfg) ==
    IF Falsy(cfg) THEN PyInt(1)
    ELSE DictGet(cfg, ordering_key(m), PyInt(1))

\* the values the admin form of get_admin_fields cleans to: a BooleanField that is
\* not required gives True or False, the required IntegerField an integer
OrderingValues == 0..MaxOrdering

AdminFieldValues(m, active, ordering) ==
    (is_active_key(m) :> PyBool(active)) @@ (ordering_key(m) :> PyInt(ordering))

InitConfig ==
    /\ configuration = PyNone
    /\ last = NoCall
    /\ products = <<>>
    /\ sort = PyNone
    /\ request = "anonymous"
    /\ current = <<>>
    /\ applied = {}
    /\ reordered = {}
    /\ categories = <<>>
    /\ manufacturers = {}
    /\ shopProducts = <<>>

sortVars == <<products, sort, request, current, applied, reordered>>

catalogVars == <<categories, manufacturers, shopProducts>>

\* the settings of modifier m are saved from its admin fields
SaveSettings ==
    \E m \in Modifiers, active \in BOOLEAN, ordering \in OrderingValues :
        LET old == IF configuration = PyNone THEN PyDict(<<>>) ELSE configuration
            new == DictUpdate(old, AdminFieldValues(m, active, ordering))
        IN  /\ last = NoCall
            /\ Cardinality(DOMAIN new.value) <= 2 * MaxConfigured
            /\ configuration' = new
            /\ UNCHANGED last
            /\ UNCHANGED <<sortVars, catalogVars>>

\* the settings are emptied
ClearSettings ==
    /\ last = NoCall
    /\ configuration # PyNone
    /\ configuration' = PyDict(<<>>)
    /\ UNCHANGED last
    /\ UNCHANGED <<sortVars, catalogVars>>

ShouldUse ==
    \E m \in Modifiers :
        /\ last = NoCall
        /\ last' = [op |-> "should_use", modifier |-> m,
                    result |-> should_use(m, configuration)]
        /\ UNCHANGED <<configuration, sortVars, catalogVars>>

GetOrdering ==
    \E m \in Modifiers :
        /\ last = NoCall
        /\ last' = [op |-> "get_ordering", modifier |-> m,
                    result |-> get_ordering(m, configuration)]
        /\ UNCHANGED <<configuration, sortVars, catalogVars>>

\* the call returns and its result is consumed: calls are made one after another
Return ==
    /\ last # NoCall
    /\ last' = NoCall
    /\ UNCHANGED <<sortVars, configuration, catalogVars>>

NextConfig == SaveSettings \/ ClearSettings \/ ShouldUse \/ GetOrdering \/ Return

SpecConfig == InitConfig /\ [][NextConfig]_vars

\* the configuration holds an entry for key, and it is truthy
HoldsTruthy(cfg, key) ==
    /\ cfg.type = "dict"
    /\ key \in DOMAIN cfg.value
    /\ Truthy(cfg.value[key])

\* C3: should_use gives a true result exactly when the configuration holds a truthy
\* value under the activation key of the modifier; with the key falsy or absent,
\* and with the configuration absent or empty, the result is false (None counts
\* as false).
C3_ActiveIffActivationKeyTruthy ==
    last.op = "should_use" =>
        /\ last.result \in {PyNone, PyBool(TRUE), PyBool(FALSE)}
        /\ Truthy(last.result) <=> HoldsTruthy(configuration, is_active_key(last.modifier))

\* C3 witness: a modifier whose activation key is absent from a configuration that
\* sets an ordering of 1 for it, asked whether it is active, said no.
C3_Witness ==
    /\ last.op = "should_use"
    /\ configuration.type = "dict"
    /\ is_active_key(last.modifier) \in DOMAIN configuration.value
    /\ configuration.value[is_active_key(last.modifier)] = PyBool(FALSE)
    /\ configuration.value[ordering_key(last.modifier)] = PyInt(1)
    /\ last.result = PyBool(FALSE)

\* C9: get_ordering gives the integer the configuration holds under the ordering
\* key of the modifier, and 1 when the configuration is absent or empty or holds
\* no integer under that key; the result is always an integer.
C9_OrderingIsConfiguredIntegerOrOne ==
    last.op = "get_ordering" =>
        LET key == ordering_key(last.modifier)
            held == /\ configuration.type = "dict"
                    /\ key \in DOMAIN configuration.value
                    /\ configuration.value[key].type = "int"
        IN  /\ last.result.type = "int"
            /\ last.result = IF held THEN configuration.value[key] ELSE PyInt(1)

\* C9 witness: a configuration that holds settings of another modifier only, so
\* that the ordering asked for is the default 1.
C9_Witness ==
    /\ last.op = "get_ordering"
    /\ configuration.type = "dict"
    /\ DOMAIN configuration.value # {}
    /\ ordering_key(last.modifier) \notin DOMAIN configuration.value
    /\ last.result = PyInt(1)

(***************************************************************************)
(* The catalog the filter modifiers read.  Primary keys are handed out in  *)
(* sequence, so a table is a sequence indexed by primary key.  A category  *)
(* has a parent (NoPk for a top-level one) and is visible or not to the    *)
(* customer of the request; a shop product belongs to a set of categories, *)
(* has a manufacturer (NoPk for none) and variation values.                *)
(***************************************************************************)
NoPk == 0

CategoryPks == 1..Len(categories)

ShopProductPks == 1..Len(shopProducts)

\* Category.objects.all_visible(request.customer, request.shop, language=language)
all_visible == {c \in CategoryPks : categories[c].visible}

\* ShopProduct.objects.filter(categories__in=[category])
ShopProductsIn(category) == {sp \in ShopProductPks : category \in shopProducts[sp].categories}

PyList(items) == [type |-> "list", value |-> items]

Field(name, choices) == [name |-> name, choices |-> choices]

ManufacturersField == <<"m", "a", "n", "u", "f", "a", "c", "t", "u", "r", "e", "r", "s">>
CategoriesField == <<"c", "a", "t", "e", "g", "o", "r", "i", "e", "s">>

\* ManufacturerProductListFilter.get_fields
ManufacturerProductListFilter_get_fields(category) ==
    IF manufacturers = {} THEN PyNone
    ELSE IF category # NoPk
    THEN LET manufacturer_ids == {shopProducts[sp].manufacturer : sp \in ShopProductsIn(category)}
         IN  IF manufacturer_ids = {NoPk} THEN PyNone
             ELSE PyList(<<Field(ManufacturersField,
                                 {m \in manufacturers : m \in manufacturer_ids})>>)
    ELSE PyList(<<Field(ManufacturersField, manufacturers)>>)

\* filter(shop_products__categories=category): the categories of the shop products
\* that belong to category
WithShopProductsIn(queryset, category) ==
    {c \in queryset : \E sp \in ShopProductsIn(category) : c \in shopProducts[sp].categories}

\* filter(parent=category), parent=None for NoPk
ChildrenOf(queryset, category) == {c \in queryset : categories[c].parent = category}

\* variant: the children of the selected category as choices
CategoryChoicesChildren(category) ==
    IF category # NoPk
    THEN ChildrenOf(all_visible, category) \ {category}
    ELSE ChildrenOf(all_visible, NoPk)

\* variant: the selected category not excluded
CategoryChoicesNotExcluding(category) ==
    IF category # NoPk
    THEN WithShopProductsIn(all_visible, category)
    ELSE ChildrenOf(all_visible, NoPk)

\* the queryset of the "categories" field
CategoryChoices(category) ==
    IF category # NoPk
    THEN WithShopProductsIn(all_visible, category) \ {category}
    ELSE ChildrenOf(all_visible, NoPk)

\* CategoryProductListFilter.get_fields
CategoryProductListFilter_get_fields(category) ==
    IF categories = <<>> THEN PyNone
    ELSE PyList(<<Field(CategoriesField, CategoryChoices(category))>>)

(***************************************************************************)
(* Variation variables, django.utils.text.slugify and the variation fields *)
(***************************************************************************)
Text_Color == <<"C", "o", "l", "o", "r">>
Text_Size == <<"S", "i", "z", "e">>
Text_TrimColor == <<"T", "r", "i", "m", " ", "c", "o", "l", "o", "r", "!">>
Text_Red == <<"R", "e", "d">>
Text_red == <<"r", "e", "d">>
Text_RED == <<"R", "E", "D">>
Text_blue == <<"b", "l", "u", "e">>
Text_L == <<"L">>
Text_l == <<"l">>
Text_variation == <<"v", "a", "r", "i", "a", "t", "i", "o", "n">>

\* a variation variable's name with one of its values
VariationPool ==
    { [name |-> Text_Color, value |-> Text_Red],
      [name |-> Text_Color, value |-> Text_blue],
      [name |-> Text_Size, value |-> Text_L],
      [name |-> Text_TrimColor, value |-> Text_RED] }

VariationSets == {vs \in SUBSET VariationPool : Cardinality(vs) <= MaxVariationValues}

\* [^\w\s-] of slugify: what is neither a word character, nor a space, nor a hyphen
IsSlugRemoved(c) == c \in {"!"}

IsSlugSeparator(c) == c \in {" ", "-"}

\* re.sub('[-\s]+', '-', value)
RECURSIVE CollapseSeparators(_)
CollapseSeparators(t) ==
    IF t = <<>> THEN <<>>
    ELSE IF IsSlugSeparator(Head(t))
    THEN IF Len(t) >= 2 /\ IsSlugSeparator(t[2])
         THEN CollapseSeparators(Tail(t))
         ELSE <<"-">> \o CollapseSeparators(Tail(t))
    ELSE <<Head(t)>> \o CollapseSeparators(Tail(t))

\* slugify(value)
slugify(t) ==
    LET Kept(c) == ~IsSlugRemoved(c)
    IN  CollapseSeparators(Lower(Strip(SelectSeq(t, Kept))))

\* "variation_%s" % variation_key
VariationFieldName(variation_key) == Text_variation \o <<"_">> \o variation_key

\* variation_values: the values found under each slugified variable name
variation_values(category) ==
    LET found == UNION {shopProducts[sp].variations : sp \in ShopProductsIn(category)}
        keys == {slugify(v.name) : v \in found}
    IN  [k \in keys |-> {v.value : v \in {w \in found : slugify(w.name) = k}}]

\* the field of one variation key: choices = [(value.lower(), value) ...]
VariationField(variation_key, values) ==
    Field(VariationFieldName(variation_key), {<<Lower(value), value>> : value \in values})

\* the sequences that list every element of S once
Orderings(S) ==
    {q \in [1..Cardinality(S) -> S] : \A i, j \in 1..Cardinality(S) : i # j => q[i] # q[j]}

\* ProductVariationFilter.get_fields; six.iteritems hands the keys out in an order
\* the dict decides
ProductVariationFilter_get_fields(category, order) ==
    IF category = NoPk THEN PyNone
    ELSE LET vv == variation_values(category)
         IN  PyList([i \in 1..Len(order) |-> VariationField(order[i], vv[order[i]])])

VariationKeyOrders(category) ==
    IF category = NoPk THEN {<<>>} ELSE Orderings(DOMAIN variation_values(category))

(***************************************************************************)
(* The catalog and the calls of get_fields.                                *)
(***************************************************************************)
otherVars == <<sortVars, configuration>>

InitCatalog ==
    /\ categories = <<>>
    /\ manufacturers = {}
    /\ shopProducts = <<>>
    /\ last = NoCall
    /\ products = <<>>
    /\ sort = PyNone
    /\ request = "anonymous"
    /\ current = <<>>
    /\ applied = {}
    /\ reordered = {}
    /\ configuration = PyNone

CreateCategory ==
    \E parent \in {NoPk} \cup CategoryPks, visible \in BOOLEAN :
        /\ last = NoCall
        /\ Len(categories) < MaxCategories
        /\ categories' = Append(categories, [parent |-> parent, visible |-> visible])
        /\ UNCHANGED <<last, manufacturers, shopProducts, otherVars>>

CreateManufacturer ==
    /\ last = NoCall
    /\ Cardinality(manufacturers) < MaxManufacturers
    /\ manufacturers' = manufacturers \cup {Cardinality(manufacturers) + 1}
    /\ UNCHANGED <<last, categories, shopProducts, otherVars>>

CreateShopProduct ==
    \E cats \in SUBSET CategoryPks, manufacturer \in {NoPk} \cup manufacturers :
        /\ last = NoCall
        /\ Len(shopProducts) < MaxShopProducts
        /\ shopProducts' = Append(shopProducts,
               [categories |-> cats, manufacturer |-> manufacturer, variations |-> {}])
        /\ UNCHANGED <<last, categories, manufacturers, otherVars>>

\* the category a listing is asked for: none, or one the customer can see
SelectableCategories == {NoPk} \cup all_visible

GetFieldsCall(m, category, result) ==
    [op |-> "get_fields", modifier |-> m, category |-> category, result |-> result]

ManufacturerGetFields ==
    \E category \in SelectableCategories :
        /\ last = NoCall
        /\ last' = GetFieldsCall(ByManufacturer, category,
                                 ManufacturerProductListFilter_get_fields(category))
        /\ UNCHANGED <<catalogVars, otherVars>>

CategoryGetFields ==
    \E category \in SelectableCategories :
        /\ last = NoCall
        /\ last' = GetFieldsCall(ByCategory, category,
                                 CategoryProductListFilter_get_fields(category))
        /\ UNCHANGED <<catalogVars, otherVars>>

VariationGetFields ==
    \E category \in SelectableCategories :
        \E order \in VariationKeyOrders(category) :
            /\ last = NoCall
        /\ last' = GetFieldsCall(ByVariation, category,
                                     ProductVariationFilter_get_fields(category, order))
            /\ UNCHANGED <<catalogVars, otherVars>>

NextCatalog ==
    \/ CreateCategory
    \/ CreateManufacturer
    \/ CreateShopProduct
    \/ ManufacturerGetFields
    \/ CategoryGetFields
    \/ VariationGetFields
    \/ Return

SpecCatalog == InitCatalog /\ [][NextCatalog]_vars

(***************************************************************************)
(* Properties of get_fields.                                               *)
(***************************************************************************)
IsGetFields(m) == last.op = "get_fields" /\ last.modifier = m

\* the choices of the one field a call returned
ChoicesOf(result) == result.value[1].choices

SharesShopProduct(c, d) ==
    \E sp \in ShopProductPks : {c, d} \subseteq shopProducts[sp].categories

\* C5, as stated: with a category selected, the choices of the category filter are
\* exactly the visible categories whose parent is the selected category.
C5_ChoicesAreChildren ==
    (IsGetFields(ByCategory) /\ last.category # NoPk) =>
        /\ last.result.type = "list"
        /\ ChoicesOf(last.result)
             = {c \in CategoryPks : categories[c].visible /\ categories[c].parent = last.category}

\* C5, amended: with a category selected, the choices of the category filter are
\* exactly the visible categories, other than the selected one, that hold a shop
\* product which also belongs to the selected category; being a child of the
\* selected category neither suffices nor is needed.
C5_ChoicesShareShopProduct ==
    (IsGetFields(ByCategory) /\ last.category # NoPk) =>
        /\ last.result.type = "list"
        /\ Len(last.result.value) = 1
        /\ last.result.value[1].name = CategoriesField
        /\ \A c \in CategoryPks :
             c \in ChoicesOf(last.result)
                <=> /\ categories[c].visible
                    /\ c # last.category
                    /\ SharesShopProduct(c, last.category)

\* C5 witness: category 1 is selected; category 2 is visible, is no child of it and
\* shares a shop product with it, and is the one choice offered.
C5_Witness ==
    /\ IsGetFields(ByCategory)
    /\ last.category = 1
    /\ Len(categories) = 2
    /\ categories[2].visible
    /\ categories[2].parent = NoPk
    /\ SharesShopProduct(1, 2)
    /\ ChoicesOf(last.result) = {2}

\* C6: with no category selected every choice of the category filter is a visible
\* category without a parent; with a category selected, that category is not
\* among the choices.
C6_TopLevelOnlyAndSelfExcluded ==
    (IsGetFields(ByCategory) /\ last.result.type = "list") =>
        IF last.category = NoPk
        THEN \A c \in ChoicesOf(last.result) :
                categories[c].visible /\ categories[c].parent = NoPk
        ELSE last.category \notin ChoicesOf(last.result)

\* C6 witness: the selected category holds a shop product that is also in another
\* visible category; the other one is offered, the selected one is not.
C6_Witness ==
    /\ IsGetFields(ByCategory)
    /\ last.category # NoPk
    /\ ShopProductsIn(last.category) # {}
    /\ ChoicesOf(last.result) # {}
    /\ last.category \notin ChoicesOf(last.result)

\* C8, as stated: get_fields returns no field (None) when the manufacturer filter
\* finds no manufacturer at all or no shop product of the selected category with
\* a manufacturer (a selected category without shop products included), when the
\* category filter finds no category, and when the variation filter is given no
\* category.
C8_NoFieldWhenDataAbsent ==
    /\ IsGetFields(ByManufacturer) =>
         ((\/ manufacturers = {}
           \/ /\ last.category # NoPk
              /\ \A sp \in ShopProductsIn(last.category) :
                    shopProducts[sp].manufacturer = NoPk)
            => last.result = PyNone)
    /\ IsGetFields(ByCategory) => (categories = <<>> => last.result = PyNone)
    /\ IsGetFields(ByVariation) => (last.category = NoPk => last.result = PyNone)

(***************************************************************************)
(* ProductVariationFilter.get_queryset.  A queryset is the number of rows  *)
(* it yields for each product: filter() on the many-valued relation        *)
(* variation_variables -> values -> translations joins one row for every   *)
(* matching value, and get_queryset applies no distinct().                 *)
(***************************************************************************)
\* key.startswith("variation")
IsVariationKey(key) == StartsWith(key, Text_variation)

\* variant: value__exact
Exact(a, b) == a = b

\* value__iexact
IExact(a, b) == Lower(a) = Lower(b)

\* the rows of product sp that the OR of the values' Q objects lets through
MatchingRows(sp, values) ==
    Cardinality({v \in shopProducts[sp].variations :
                    \E i \in 1..Len(values) : IExact(v.value, values[i])})

\* queryset.filter(variation_query); an empty Q() filters nothing
FilterByValues(rows, values) ==
    IF values = <<>> THEN rows
    ELSE [sp \in {p \in DOMAIN rows : MatchingRows(p, values) > 0} |->
             rows[sp] * MatchingRows(sp, values)]

\* for key, values in six.iteritems(data)
RECURSIVE FilterByKeys(_, _, _)
FilterByKeys(rows, data, keys) ==
    IF keys = {} THEN rows
    ELSE LET key == CHOOSE k \in keys : TRUE
         IN  FilterByKeys(IF IsVariationKey(key) THEN FilterByValues(rows, data[key]) ELSE rows,
                          data, keys \ {key})

QuerySet(rows) == [type |-> "QuerySet", rows |-> rows]

\* ProductVariationFilter.get_queryset
ProductVariationFilter_get_queryset(queryset, data) ==
    IF ~\E key \in DOMAIN data : IsVariationKey(key) THEN PyNone
    ELSE QuerySet(FilterByKeys([sp \in queryset |-> 1], data, DOMAIN data))

\* the submitted form data: the two variation fields and a field of another modifier
ColorField == VariationFieldName(slugify(Text_Color))
SizeField == VariationFieldName(slugify(Text_Size))

Selections == {<<>>, <<Text_red>>, <<Text_l>>, <<Text_red, Text_l>>, <<Text_RED>>}

VariationData == UNION {[keys -> Selections] : keys \in SUBSET {ColorField, SizeField}}

DataSets == VariationData \cup {d @@ (ManufacturersField :> <<1>>) : d \in VariationData}

InitVariation ==
    /\ categories = <<[parent |-> NoPk, visible |-> TRUE]>>
    /\ manufacturers = {}
    /\ shopProducts = <<>>
    /\ last = NoCall
    /\ products = <<>>
    /\ sort = PyNone
    /\ request = "anonymous"
    /\ current = <<>>
    /\ applied = {}
    /\ reordered = {}
    /\ configuration = PyNone

CreateVariationProduct ==
    \E cats \in SUBSET CategoryPks, variations \in VariationSets :
        /\ last = NoCall
        /\ Len(shopProducts) < MaxShopProducts
        /\ shopProducts' = Append(shopProducts,
               [categories |-> cats, manufacturer |-> NoPk, variations |-> variations])
        /\ UNCHANGED <<last, categories, manufacturers, otherVars>>

VariationGetQueryset ==
    \E queryset \in SUBSET ShopProductPks, data \in DataSets :
        /\ last = NoCall
        /\ last' = [op |-> "get_queryset", modifier |-> ByVariation, queryset |-> queryset,
                    data |-> data, result |-> ProductVariationFilter_get_queryset(queryset, data)]
        /\ UNCHANGED <<catalogVars, otherVars>>

NextVariation ==
    CreateVariationProduct \/ VariationGetFields \/ VariationGetQueryset \/ Return

SpecVariation == InitVariation /\ [][NextVariation]_vars

\* the names get_fields gives the variation fields
VariationFieldNames == {VariationFieldName(slugify(v.name)) : v \in VariationPool}

HasValueOf(sp, values) ==
    \E v \in shopProducts[sp].variations :
        \E i \in 1..Len(values) : Lower(v.value) = Lower(values[i])

\* C7: given data with at least one variation field, get_queryset returns exactly
\* the products of the input queryset that, for every variation field with
\* selected values, have a variation value equal, letter case aside, to one of
\* the values selected for that field; other keys of the data change nothing.
C7_VariationFilterSelectsMatchingProducts ==
    (last.op = "get_queryset" /\ DOMAIN last.data \cap VariationFieldNames # {}) =>
        /\ last.result.type = "QuerySet"
        /\ DOMAIN last.result.rows
             = {sp \in last.queryset :
                  \A key \in DOMAIN last.data \cap VariationFieldNames :
                      last.data[key] # <<>> => HasValueOf(sp, last.data[key])}

\* C7 witness: "red" is selected for the colour, "l" for the size, and the data
\* holds manufacturers too; the product with Color "Red" and Size "L" is returned.
C7_Witness ==
    /\ last.op = "get_queryset"
    /\ DOMAIN last.data = {ColorField, SizeField, ManufacturersField}
    /\ last.data[ColorField] = <<Text_red>>
    /\ last.data[SizeField] = <<Text_l>>
    /\ last.queryset = {1}
    /\ shopProducts[1].variations
         = {[name |-> Text_Color, value |-> Text_Red], [name |-> Text_Size, value |-> Text_L]}
    /\ DOMAIN last.result.rows = {1}

====
